---- MODULE Spec2Model ----
(***************************************************************************)
(* S3Handler (src/SeaweedS3Client/client.py): a facade over one boto3 S3   *)
(* client.  The handler's own state is its four attributes; the object     *)
(* store behind the SDK client is modelled as a set of buckets and a map   *)
(* from (bucket, key) to a byte payload.  Every SDK call either succeeds,  *)
(* raises botocore's ClientError, or raises some other exception; which    *)
(* `except` clause of the method catches it decides what the caller sees.  *)
(***************************************************************************)
EXTENDS Integers, Sequences, FiniteSets, TLC

\* ---------------------------------------------------------------- bounds
MaxPathLen == 2   \* longest local path, in characters
MaxObjects == 1   \* most objects the store holds at once
MaxTicks == 2     \* most steps the clock takes

\* ------------------------------------------------------- program constants
DefaultExpiration == 3600

\* ------------------------------------------------------------ input sets
None == "None"    \* Python's None where the other values are strings
NoneArg == <<>>   \* an omitted object_name; a given name n is <<n>>
Chars == {"a", "/"}
\* paths of local files: a file's path does not end in a separator
Paths == {p \in UNION {[1..n -> Chars] : n \in 1..MaxPathLen} : p[Len(p)] # "/"}
\* the bytes of the local file at each path
LocalFile(p) == IF p[1] = "/" THEN <<7, 9>> ELSE <<7>>
BucketNames == {<<"x">>, <<"y">>}
ObjectNames == {<<"a">>}
ObjectNameArgs == {NoneArg} \cup {<<n>> : n \in ObjectNames}
Regions == {None, "r"}
Expirations == {1, DefaultExpiration}
\* keys a caller asks a presigned URL for: a name, and the empty key
PresignKeys == ObjectNames \cup {<<>>}
Outcomes == {"ok", "ClientError", "Exception"}

\* ------------------------------------------------------- pure functions
\* os.path.basename: everything after the last "/" of the path
LastSep(p) ==
  LET I == {i \in 1..Len(p) : p[i] = "/"}
  IN IF I = {} THEN 0 ELSE CHOOSE i \in I : \A j \in I : j <= i

BasenameWholePath(p) == p

Basename(p) == SubSeq(p, LastSep(p) + 1, Len(p))

\* keys a caller asks for: those uploads can store, and the empty key
Keys == {Basename(p) : p \in Paths} \cup ObjectNames \cup {<<>>}

\* f's3://{bucket_name}/{object_name}'
Uri(bucket_name, object_name) ==
  <<"s", "3", ":", "/", "/">> \o bucket_name \o <<"/">> \o object_name

\* io.BytesIO() filled by download_fileobj, then buffer.seek(0)
DownloadBufferNoSeek(content) == [data |-> content, pos |-> Len(content)]

DownloadBuffer(content) == [data |-> content, pos |-> 0]

\* what buffer.read() yields: the bytes from the stream's position on
Read(buffer) == SubSeq(buffer.data, buffer.pos + 1, Len(buffer.data))

Put(f, k, v) == [x \in DOMAIN f \cup {k} |-> IF x = k THEN v ELSE f[x]]
Drop(f, k) == [x \in DOMAIN f \ {k} |-> f[x]]

VARIABLES
  self,      \* the handler: url, access_key, secret_key, client
  buckets,   \* the store: names of the buckets that exist
  objects,   \* the store: <<bucket, key>> -> payload
  uploaded,  \* history: <<bucket, key>> -> payload of the last successful
             \* upload, until a later write or delete of that key
  issued,    \* the presigned download URL a fetcher holds, or NoUrl
  now,       \* the clock, in seconds
  last       \* the last call: its arguments and what the caller saw

vars == <<self, buckets, objects, uploaded, issued, now, last>>
store == <<buckets, objects>>

\* ------------------------------------------------------ what a call leaves
NoUrl ==
  [method |-> "none", bucket |-> <<>>, key |-> <<>>, issued_at |-> 0, expires_in |-> 0]
\* no URL is in a fetcher's hands
NotIssued ==
  [url |-> NoUrl, bucket |-> <<>>, key |-> <<>>, expiration |-> 0, at |-> 0]
NoAfter == [op |-> "none", bucket |-> <<>>, flag |-> "none"]

\* the value a method hands back: flag is "True"/"False" for a boolean (alone
\* or first of a pair), "value" for a bare value, "None" for a bare None
Ret(flag, kind, val) == [flag |-> flag, kind |-> kind, val |-> val, exc |-> "none"]
\* the exception left the method: nothing is returned
Raise(e) == [flag |-> "raised", kind |-> "none", val |-> <<>>, exc |-> e]

\* a second client built from the ambient default credentials
ClientAmbient(h) ==
  [service_name |-> "s3", aws_access_key_id |-> None,
   aws_secret_access_key |-> None, endpoint_url |-> None]

\* self.client, the client every method calls
Client(h) == h.client

\* `arg` is the object_name argument as passed (NoneArg when omitted), `key`
\* the key the SDK was called with
Call(op, bucket, key, path, arg, region, expiration, outcome, ret, after) ==
  [op |-> op, bucket |-> bucket, key |-> key, path |-> path, arg |-> arg,
   region |-> region, expiration |-> expiration, outcome |-> outcome,
   flag |-> ret.flag, kind |-> ret.kind, val |-> ret.val, exc |-> ret.exc,
   after |-> after, client |-> Client(self), at |-> now]

\* the create_bucket / delete_bucket call that came right before this one
After(l) ==
  IF l.op \in {"create_bucket", "delete_bucket"}
  THEN [op |-> l.op, bucket |-> l.bucket, flag |-> l.flag]
  ELSE NoAfter

BucketEmpty(name) == \A k \in DOMAIN objects : k[1] # name

\* ------------------------------------------------- the SDK calls' outcomes
\* client.list_buckets()
SdkListBucketsOutcomes == Outcomes

\* client.create_bucket(Bucket=name[, CreateBucketConfiguration=location]):
\* on a bucket the caller already owns the store answers 200 or an error
SdkCreateBucketOutcomes(name) == Outcomes

\* client.delete_bucket(Bucket=name): NoSuchBucket, BucketNotEmpty
SdkDeleteBucketOutcomes(name) ==
  IF name \in buckets /\ BucketEmpty(name) THEN Outcomes ELSE Outcomes \ {"ok"}

\* client.upload_file / client.upload_fileobj: the bucket must exist, the key
\* must not be empty, and the store must have room
SdkUploadOutcomes(bucket_name, object_name) ==
  IF /\ bucket_name \in buckets
     /\ object_name # <<>>
     /\ \/ <<bucket_name, object_name>> \in DOMAIN objects
        \/ Cardinality(DOMAIN objects) < MaxObjects
  THEN Outcomes ELSE Outcomes \ {"ok"}

\* client.delete_object(Bucket=, Key=): deleting a missing key succeeds
SdkDeleteObjectOutcomes(bucket_name, object_name) ==
  IF bucket_name \in buckets /\ object_name # <<>>
  THEN Outcomes ELSE Outcomes \ {"ok"}

\* client.download_fileobj(bucket, key, buffer): the object must exist
SdkDownloadOutcomes(bucket_name, object_name) ==
  IF <<bucket_name, object_name>> \in DOMAIN objects
  THEN Outcomes ELSE Outcomes \ {"ok"}

\* client.generate_presigned_url / generate_presigned_post: signing is local,
\* the store is not asked whether the object exists
SdkPresignOutcomes(bucket_name, object_name) ==
  IF object_name # <<>> THEN Outcomes ELSE Outcomes \ {"ok"}

\* ------------------------------------------ what each method hands back
\* create_bucket, lines 37-40: except ClientError -> False; else True
CreateBucketReturnTrueOnError(outcome) ==
  IF outcome = "Exception" THEN Raise(outcome) ELSE Ret("True", "none", <<>>)

CreateBucketReturn(outcome) ==
  IF outcome = "ok" THEN Ret("True", "none", <<>>)
  ELSE IF outcome = "ClientError" THEN Ret("False", "none", <<>>)
  ELSE Raise(outcome)

\* delete_bucket, lines 45-48: True in the try, True in except Exception
DeleteBucketReturnFalseOnError(outcome) ==
  IF outcome = "ok" THEN Ret("True", "none", <<>>) ELSE Ret("False", "none", <<>>)

DeleteBucketReturn(outcome) == Ret("True", "none", <<>>)

\* upload_file / upload_file_binary: except ClientError -> (False, None)
UploadReturn(outcome, bucket_name, object_name) ==
  IF outcome = "ok" THEN Ret("True", "uri", Uri(bucket_name, object_name))
  ELSE IF outcome = "ClientError" THEN Ret("False", "none", <<>>)
  ELSE Raise(outcome)

\* delete_object: except Exception -> (False, None)
DeleteObjectReturnFalse(outcome) == Ret("False", "none", <<>>)

DeleteObjectReturn(outcome) ==
  IF outcome = "ok" THEN Ret("True", "response", <<>>) ELSE Ret("False", "none", <<>>)

\* download_object: except Exception -> (False, None)
DownloadReturn(outcome, content) ==
  IF outcome = "ok" THEN Ret("True", "stream", DownloadBuffer(content))
  ELSE Ret("False", "none", <<>>)

\* generate_presigned_url(ClientMethod='get_object', Params=..., ExpiresIn=expiration)
PresignedUrlDefaultExpiry(bucket_name, object_name, expiration) ==
  [method |-> "get_object", bucket |-> bucket_name, key |-> object_name,
   issued_at |-> now, expires_in |-> DefaultExpiration]

PresignedUrl(bucket_name, object_name, expiration) ==
  [method |-> "get_object", bucket |-> bucket_name, key |-> object_name,
   issued_at |-> now, expires_in |-> expiration]

\* generate_presigned_post(bucket_name, object_name, ExpiresIn=expiration)
PresignedPost(bucket_name, object_name, expiration) ==
  [method |-> "post_object", bucket |-> bucket_name, key |-> object_name,
   issued_at |-> now, expires_in |-> expiration]

\* get_presigned_*: except ClientError -> None
PresignReturn(outcome, response) ==
  IF outcome = "ok" THEN Ret("value", "url", response)
  ELSE IF outcome = "ClientError" THEN Ret("None", "none", <<>>)
  ELSE Raise(outcome)

\* --------------------------------------------------------- construction
\* boto3.client(service_name='s3', aws_access_key_id=..., ...)
InitializeBotoClient(h) ==
  [service_name |-> "s3", aws_access_key_id |-> h.access_key,
   aws_secret_access_key |-> h.secret_key, endpoint_url |-> h.url]

\* S3Handler(s3_url, access_key, secret_key)
Construct(s3_url, access_key, secret_key) ==
  LET h == [url |-> s3_url, access_key |-> access_key, secret_key |-> secret_key]
  IN [url |-> h.url, access_key |-> h.access_key, secret_key |-> h.secret_key,
      client |-> InitializeBotoClient(h)]

NoCall ==
  [op |-> "none", bucket |-> <<>>, key |-> <<>>, path |-> <<>>, arg |-> NoneArg,
   region |-> None, expiration |-> 0, outcome |-> "ok", flag |-> "none",
   kind |-> "none", val |-> <<>>, exc |-> "none", after |-> NoAfter, at |-> 0,
   client |-> InitializeBotoClient([url |-> "http://localhost:3333",
                                    access_key |-> "any", secret_key |-> "any"])]

Init ==
  /\ self = Construct("http://localhost:3333", "any", "any")
  /\ buckets = {}
  /\ objects = <<>>
  /\ uploaded = <<>>
  /\ issued = NotIssued
  /\ now = 0
  /\ last = NoCall

\* ------------------------------------------------------------- methods
get_buckets ==
  \E outcome \in SdkListBucketsOutcomes :
    /\ last' = Call("get_buckets", <<>>, <<>>, <<>>, NoneArg, None, 0, outcome,
                    IF outcome = "ok" THEN Ret("value", "listing", buckets)
                    ELSE Raise(outcome),
                    After(last))
    /\ UNCHANGED <<self, buckets, objects, uploaded, issued, now>>

create_bucket(name, region) ==
  \E outcome \in SdkCreateBucketOutcomes(name) :
    /\ buckets' = IF outcome = "ok" THEN buckets \cup {name} ELSE buckets
    /\ last' = Call("create_bucket", name, <<>>, <<>>, NoneArg, region, 0, outcome,
                    CreateBucketReturn(outcome), NoAfter)
    /\ UNCHANGED <<self, objects, uploaded, issued, now>>

delete_bucket(name) ==
  \E outcome \in SdkDeleteBucketOutcomes(name) :
    /\ buckets' = IF outcome = "ok" THEN buckets \ {name} ELSE buckets
    /\ last' = Call("delete_bucket", name, <<>>, <<>>, NoneArg, None, 0, outcome,
                    DeleteBucketReturn(outcome), NoAfter)
    /\ UNCHANGED <<self, objects, uploaded, issued, now>>

\* the body shared by upload_file and upload_file_binary: `source` is
\* path_to_file or buffer.name, `content` the bytes the SDK reads from it
Upload(op, source, bucket_name, object_name, content) ==
  LET name == IF object_name = NoneArg THEN Basename(source) ELSE object_name[1]
  IN \E outcome \in SdkUploadOutcomes(bucket_name, name) :
       /\ objects' = IF outcome = "ok"
                     THEN Put(objects, <<bucket_name, name>>, content)
                     ELSE objects
       /\ uploaded' = IF outcome = "ok"
                      THEN Put(uploaded, <<bucket_name, name>>, content)
                      ELSE uploaded
       /\ last' = Call(op, bucket_name, name, source, object_name, None,
                       0, outcome, UploadReturn(outcome, bucket_name, name), NoAfter)
       /\ UNCHANGED <<self, buckets, issued, now>>

\* the file at path_to_file is read by the SDK
upload_file(path_to_file, bucket_name, object_name) ==
  Upload("upload_file", path_to_file, bucket_name, object_name,
         LocalFile(path_to_file))

\* buffer is an open binary stream: its name and the bytes it yields
upload_file_binary(buffer, bucket_name, object_name) ==
  Upload("upload_file_binary", buffer.name, bucket_name, object_name, buffer.data)

delete_object(bucket_name, object_name) ==
  \E outcome \in SdkDeleteObjectOutcomes(bucket_name, object_name) :
    /\ objects' = IF outcome = "ok"
                  THEN Drop(objects, <<bucket_name, object_name>>) ELSE objects
    /\ uploaded' = IF outcome = "ok"
                   THEN Drop(uploaded, <<bucket_name, object_name>>) ELSE uploaded
    /\ last' = Call("delete_object", bucket_name, object_name, <<>>,
                    <<object_name>>, None,
                    0, outcome, DeleteObjectReturn(outcome), NoAfter)
    /\ UNCHANGED <<self, buckets, issued, now>>

download_object(bucket_name, object_name) ==
  \E outcome \in SdkDownloadOutcomes(bucket_name, object_name) :
    /\ last' = Call("download_object", bucket_name, object_name, <<>>,
                    <<object_name>>, None,
                    0, outcome,
                    DownloadReturn(outcome,
                      IF outcome = "ok" THEN objects[<<bucket_name, object_name>>]
                      ELSE <<>>),
                    NoAfter)
    /\ UNCHANGED <<self, buckets, objects, uploaded, issued, now>>

get_presigned_download_url(bucket_name, object_name, expiration) ==
  \E outcome \in SdkPresignOutcomes(bucket_name, object_name) :
    /\ last' = Call("get_presigned_download_url", bucket_name, object_name,
                    <<>>, <<object_name>>, None, expiration, outcome,
                    PresignReturn(outcome,
                      PresignedUrl(bucket_name, object_name, expiration)),
                    NoAfter)
    /\ UNCHANGED <<self, buckets, objects, uploaded, issued, now>>

get_presigned_upload_url(bucket_name, object_name, expiration) ==
  \E outcome \in SdkPresignOutcomes(bucket_name, object_name) :
    /\ last' = Call("get_presigned_upload_url", bucket_name, object_name,
                    <<>>, <<object_name>>, None, expiration, outcome,
                    PresignReturn(outcome,
                      PresignedPost(bucket_name, object_name, expiration)),
                    NoAfter)
    /\ UNCHANGED <<self, buckets, objects, uploaded, issued, now>>

\* open(p, 'rb') for each local file
Buffers == {[name |-> p, data |-> LocalFile(p)] : p \in Paths}

Next ==
  \/ get_buckets
  \/ \E name \in BucketNames, region \in Regions : create_bucket(name, region)
  \/ \E name \in BucketNames : delete_bucket(name)
  \/ \E path_to_file \in Paths, bucket_name \in BucketNames,
        object_name \in ObjectNameArgs :
       upload_file(path_to_file, bucket_name, object_name)
  \/ \E buffer \in Buffers, bucket_name \in BucketNames,
        object_name \in ObjectNameArgs :
       upload_file_binary(buffer, bucket_name, object_name)
  \/ \E bucket_name \in BucketNames, object_name \in Keys :
       delete_object(bucket_name, object_name)
  \/ \E bucket_name \in BucketNames, object_name \in Keys :
       download_object(bucket_name, object_name)
  \/ \E bucket_name \in BucketNames, object_name \in PresignKeys,
        expiration \in Expirations :
       get_presigned_download_url(bucket_name, object_name, expiration)
  \/ \E bucket_name \in BucketNames, object_name \in PresignKeys,
        expiration \in Expirations :
       get_presigned_upload_url(bucket_name, object_name, expiration)

Spec == Init /\ [][Next]_vars

\* ------------------------------------------- presigned URLs over time
\* the caller hands the URL it was just given to a fetcher
HandOut ==
  /\ last.op = "get_presigned_download_url"
  /\ last.kind = "url"
  /\ issued' = [url |-> last.val, bucket |-> last.bucket, key |-> last.key,
                expiration |-> last.expiration, at |-> last.at]
  /\ UNCHANGED <<self, buckets, objects, uploaded, now, last>>

\* time passes: a second, or as long as the default window
Ticks == (now \div DefaultExpiration) + (now % DefaultExpiration)

Tick ==
  \E d \in {1, DefaultExpiration} :
    /\ Ticks < MaxTicks
    /\ now' = now + d
    /\ UNCHANGED <<self, buckets, objects, uploaded, issued, last>>

\* the store's answer to a GET of a presigned URL: the object's bytes while
\* the URL's own window is open and the object exists, a refusal once the
\* window has closed or when there is no such object; at the very second
\* the window closes, either
FetchOutcomes(url) ==
  LET closes == url.issued_at + url.expires_in
      exists == <<url.bucket, url.key>> \in DOMAIN objects
  IN {o \in {"ok", "refused"} :
        IF o = "ok" THEN exists /\ now <= closes ELSE ~exists \/ now >= closes}

Fetch ==
  /\ issued # NotIssued
  /\ \E outcome \in FetchOutcomes(issued.url) :
       last' = Call("fetch", issued.url.bucket, issued.url.key, <<>>,
                    <<issued.url.key>>, None,
                    issued.expiration, outcome,
                    IF outcome = "ok"
                    THEN Ret("True", "bytes", objects[<<issued.url.bucket, issued.url.key>>])
                    ELSE Ret("False", "none", <<>>),
                    NoAfter)
  /\ UNCHANGED <<self, buckets, objects, uploaded, issued, now>>

\* the bucket, and the two local files of different content, that the
\* presigned URLs are exercised on
UrlBucket == <<"x">>
UrlPaths == {<<"a">>, <<"/", "a">>}

NextUrl ==
  \/ create_bucket(UrlBucket, None)
  \/ \E path_to_file \in UrlPaths : upload_file(path_to_file, UrlBucket, NoneArg)
  \/ \E object_name \in ObjectNames : delete_object(UrlBucket, object_name)
  \/ \E object_name \in ObjectNames, expiration \in Expirations :
       get_presigned_download_url(UrlBucket, object_name, expiration)
  \/ HandOut
  \/ Tick
  \/ Fetch

SpecUrl == Init /\ [][NextUrl]_vars

\* ============================================================ properties
UploadOps == {"upload_file", "upload_file_binary"}
LastPair == <<last.bucket, last.key>>

\* a download of a key whose last write was a successful upload, with no
\* write or delete of that key since
DownloadAfterUpload ==
  last.op = "download_object" /\ LastPair \in DOMAIN uploaded

\* C1, as stated: after upload_file or upload_file_binary of a payload to
\* (bucket, key) returned success, a following download_object(bucket, key)
\* with no write or delete of the key in between returns (true, stream) and
\* the stream's content is the uploaded payload, byte for byte.
C1_DownloadAlwaysReturnsUpload ==
  DownloadAfterUpload =>
    /\ last.flag = "True"
    /\ last.kind = "stream"
    /\ Read(last.val) = uploaded[LastPair]

\* C1, amended: such a download returns (true, stream) with the stream's
\* content equal to the uploaded payload, unless the SDK's download call
\* itself fails, and then it returns (false, none).
C1_DownloadReturnsUploadUnlessSdkFails ==
  DownloadAfterUpload =>
    IF last.outcome = "ok"
    THEN /\ last.flag = "True"
         /\ last.kind = "stream"
         /\ Read(last.val) = uploaded[LastPair]
    ELSE last.flag = "False" /\ last.kind = "none" /\ last.exc = "none"

C1_Witness ==
  /\ DownloadAfterUpload
  /\ last.flag = "True"
  /\ Len(uploaded[LastPair]) = 2

\* get_buckets called right after create_bucket / delete_bucket
ListedAfter(op) == last.op = "get_buckets" /\ last.after.op = op

\* C2, as stated: create_bucket(name) followed immediately by get_buckets()
\* yields a listing, and the listing includes name.
C2_ListingAfterCreateIncludesName ==
  ListedAfter("create_bucket") =>
    last.kind = "listing" /\ last.after.bucket \in last.val

\* C2, amended: when create_bucket(name) returns true and the get_buckets()
\* that follows immediately returns a listing, the listing includes name.
C2_ListingAfterCreatedIncludesName ==
  ListedAfter("create_bucket") /\ last.after.flag = "True" /\ last.kind = "listing"
    => last.after.bucket \in last.val

C2_Witness ==
  /\ ListedAfter("create_bucket")
  /\ last.after.flag = "True"
  /\ last.kind = "listing"
  /\ Cardinality(last.val) = 2

\* C3: delete_bucket(name) followed immediately by get_buckets() yields a
\* listing that excludes name.
C3_ListingAfterDeleteExcludesName ==
  ListedAfter("delete_bucket") /\ last.kind = "listing"
    => last.after.bucket \notin last.val

\* C4: create_bucket lets no exception escape; when the SDK call fails it
\* returns false, and it returns true only when the SDK call succeeded.
C4_CreateBucketNeverRaises ==
  last.op = "create_bucket" =>
    /\ last.exc = "none"
    /\ last.outcome # "ok" => last.flag = "False"
    /\ last.flag = "True" => last.outcome = "ok"

\* C5: when the SDK call of upload_file, upload_file_binary, delete_object
\* or download_object fails, with a ClientError or with any other exception,
\* the method returns (false, none) and no exception reaches the caller.
C5_ObjectCallsReturnFalseNoneOnError ==
  /\ last.op \in UploadOps \cup {"delete_object", "download_object"}
  /\ last.outcome # "ok"
  => last.flag = "False" /\ last.kind = "none" /\ last.exc = "none"

\* C6: delete_bucket returns true in every case (bucket removed, bucket
\* missing, any other SDK failure); it never returns false and never raises.
C6_DeleteBucketAlwaysTrue ==
  last.op = "delete_bucket" => last.flag = "True" /\ last.exc = "none"

C6_Witness ==
  /\ last.op = "delete_bucket"
  /\ last.outcome = "Exception"
  /\ last.flag = "True"
  /\ last.bucket \in buckets

\* k is the last component of path p: it holds no separator, p ends with
\* it, and it is all of p or follows a separator
IsLastComponent(k, p) ==
  /\ \A i \in 1..Len(k) : k[i] # "/"
  /\ Len(k) <= Len(p)
  /\ SubSeq(p, Len(p) - Len(k) + 1, Len(p)) = k
  /\ Len(k) = Len(p) \/ p[Len(p) - Len(k)] = "/"

\* C7: an upload without an object name stores the object under the last
\* component of the source path (upload_file_binary: of the stream's name),
\* an upload with an object name stores it under that name unchanged; the
\* URI returned is s3://<bucket>/<that key>.
C7_UploadKeyIsBaseNameOrGivenName ==
  last.op \in UploadOps /\ last.flag = "True" =>
    \E k \in Keys :
      /\ IF last.arg = NoneArg THEN IsLastComponent(k, last.path)
         ELSE k = last.arg[1]
      /\ <<last.bucket, k>> \in DOMAIN objects
      /\ objects[<<last.bucket, k>>] = LocalFile(last.path)
      /\ last.kind = "uri"
      /\ last.val = <<"s", "3", ":", "/", "/">> \o last.bucket \o <<"/">> \o k

C7_Witness ==
  /\ last.op = "upload_file_binary"
  /\ last.flag = "True"
  /\ last.arg = NoneArg
  /\ \E i \in 1..Len(last.path) : last.path[i] = "/"

\* C8: a fetch of a URL that get_presigned_download_url(bucket, key,
\* expiration) returned yields the bytes of the object at (bucket, key),
\* when there is one, if made less than `expiration` seconds after the call,
\* and fails if made more than `expiration` seconds after it.
C8_FetchWithinWindowOnly ==
  last.op = "fetch" =>
    LET closes == issued.at + issued.expiration
        pair == <<issued.bucket, issued.key>>
    IN /\ last.at < closes /\ pair \in DOMAIN objects
          => last.flag = "True" /\ last.val = objects[pair]
       /\ last.at > closes => last.flag = "False"

C8_Witness ==
  /\ last.op = "fetch"
  /\ last.at > issued.at + issued.expiration
  /\ <<issued.bucket, issued.key>> \in DOMAIN objects
  /\ issued.expiration = DefaultExpiration

\* C9: no call changes the handler's url, access_key, secret_key or client;
\* these four are all the handler holds, and the client each call uses is
\* the one the constructor built.
C9_HandlerUnchanged ==
  [][/\ self' = self
     /\ DOMAIN self = {"url", "access_key", "secret_key", "client"}
     /\ last'.client = self.client]_vars

C9_Witness ==
  /\ last.op = "upload_file"
  /\ last.flag = "True"
  /\ last.client = self.client

\* the call reported failure to its caller
ReportsFailure(l) ==
  \/ l.op = "create_bucket" /\ l.flag = "False"
  \/ /\ l.op \in UploadOps \cup {"delete_object", "download_object"}
     /\ l.flag = "False"
     /\ l.kind = "none"
  \/ /\ l.op \in {"get_presigned_download_url", "get_presigned_upload_url"}
     /\ l.flag = "None"
  \/ l.op = "get_buckets" /\ l.flag = "raised"

ReadOnlyOps ==
  {"get_buckets", "download_object", "get_presigned_download_url",
   "get_presigned_upload_url"}

\* C10: a call that reports failure leaves the store's buckets and objects
\* as they were, and so does every read-only call, failed or not.
C10_FailureLeavesStore ==
  [][ReportsFailure(last') \/ last'.op \in ReadOnlyOps
       => buckets' = buckets /\ objects' = objects]_vars

C10_Witness ==
  /\ last.op = "delete_object"
  /\ last.flag = "False"
  /\ LastPair \in DOMAIN objects
====
